---- MODULE Spec2Model ----
(***************************************************************************)
(* Notes API: the rate limiter middleware (rate_limiter.py), the cached    *)
(* note handlers (notes.py) and the bearer-token guard (data.py), with the *)
(* shared Redis store they use.                                            *)
(*                                                                         *)
(* Python's None is the empty tuple and a present value x is <<x>>.        *)
(* Strings that the code inspects (titles, search terms) are sequences of  *)
(* one-character strings.                                                  *)
(***************************************************************************)
EXTENDS Integers, Sequences, FiniteSets, TLC

VARIABLES
    now,      \* the clock (time.time)
    redis,    \* the shared Redis store: key -> [val, exp]
    limit,    \* RateLimiterMiddleware.limit
    window,   \* RateLimiterMiddleware.window
    rreqs,    \* requests that entered RateLimiterMiddleware.dispatch
    notes,    \* the note table: id -> [title, content, owner_id]
    nextId,   \* the next primary key of the note table
    nreqs,    \* requests that entered a note handler
    muts,     \* per owner, the number of committed note mutations
    users,    \* the user table: username -> [id, password, role]
    issued,   \* the tokens create_access_token has returned
    auth,     \* the outcome of the get_current_user call of this step
    call      \* the other call of this step (register, login,
              \* create_access_token, role_checker) and its outcome

vars == <<now, redis, limit, window, rreqs, notes, nextId, nreqs, muts,
          users, issued, auth, call>>

rateVars == <<limit, window, rreqs>>

noteVars == <<notes, nextId, nreqs, muts>>

authVars == <<users, issued, auth, call>>

None == <<>>
Some(x) == <<x>>

\* no get_current_user call was made in this step
NoCall == [kind |-> "none"]

\* none of register, login, create_access_token, role_checker ran in this step
NoReply == [op |-> "none"]

\* ------------------------------------------------------------------ bounds
\* largest request ceiling / window length the middleware is constructed with
MaxLimit == 2
MaxWindow == 2
\* requests that enter the rate limiter in one behaviour
MaxRateReqs == 3
\* the clock runs over two full windows and one second more
MaxRateTime == 2 * MaxWindow + 1

Clients == {"10.0.0.1", "10.0.0.2"}

\* ids of the identities that own notes
Users == {1, 2}

\* ------------------------------------------------------------ Redis store
\* redis maps a key to [val, exp]; a key whose expiry has passed is absent.
RedisGet(key) ==
    IF key \in DOMAIN redis /\ redis[key].exp > now
    THEN Some(redis[key].val)
    ELSE None

\* the time to live runs out one second early
RedisSetShort(key, val, ex) ==
    [k \in (DOMAIN redis) \cup {key} |->
        IF k = key THEN [val |-> val, exp |-> now + ex - 1] ELSE redis[k]]

RedisSet(key, val, ex) ==
    [k \in (DOMAIN redis) \cup {key} |->
        IF k = key THEN [val |-> val, exp |-> now + ex] ELSE redis[k]]

\* DEL empties the store
RedisFlush(key) == <<>>

\* DEL removes the key whose name is exactly the argument
RedisDelete(key) ==
    [k \in (DOMAIN redis) \ {key} |-> redis[k]]

\* keys whose time to live has run out at time t are dropped by the store
RedisExpire(t) ==
    [k \in {x \in DOMAIN redis : redis[x].exp > t} |-> redis[k]]

\* ----------------------------------------------------------- rate limiter
\* the key names no bucket
WindowStartFixed(t, w) == 0

\* the key names the second of the request
WindowStartNow(t, w) == t

WindowStart(t, w) == t - (t % w)

\* one counter for all clients
WindowKeyShared(client_ip, t, w) == <<"rate", "any", WindowStart(t, w)>>

WindowKey(client_ip, t, w) == <<"rate", client_ip, WindowStart(t, w)>>

\* count after this request, from what GET returned
NextCount(count) == IF count = None THEN 1 ELSE count[1] + 1

\* the ceiling itself is refused
OverLimitOffByOne(count, lim) == count >= lim

\* one request more than the ceiling passes
OverLimitLoose(count, lim) == count > lim + 1

OverLimit(count, lim) == count > lim

RateDone == \A i \in 1..Len(rreqs) : rreqs[i].pc = "done"

\* dispatch, lines 13-19: the key of the current window, and GET.
\* up: whether the store answers this call (FALSE: the call raises)
DispatchGet(c, up) ==
    /\ Len(rreqs) < MaxRateReqs
    /\ LET key == WindowKey(c, now, window)
           r == [client |-> c, t |-> now, pc |-> "set", count |-> None,
                 storeFailed |-> FALSE, resp |-> "pending"]
       IN  rreqs' = Append(rreqs,
              IF up
              THEN [r EXCEPT !.count = RedisGet(key)]
              ELSE [r EXCEPT !.pc = "done", !.storeFailed = TRUE,
                             !.resp = "500"])
    /\ UNCHANGED <<now, redis, limit, window, noteVars, authVars>>

\* dispatch, lines 20-28: SET of the new count, then 429 or call_next
DispatchSet(i, up) ==
    /\ i \in 1..Len(rreqs)
    /\ rreqs[i].pc = "set"
    /\ LET r == rreqs[i]
           key == WindowKey(r.client, r.t, window)
           count == NextCount(r.count)
       IN  IF up
           THEN /\ redis' = RedisSet(key, count, window)
                /\ rreqs' = [rreqs EXCEPT ![i].pc = "done",
                               ![i].count = Some(count),
                               ![i].resp = IF OverLimit(count, limit)
                                           THEN "429" ELSE "forwarded"]
           ELSE /\ redis' = redis
                /\ rreqs' = [rreqs EXCEPT ![i].pc = "done",
                               ![i].storeFailed = TRUE, ![i].resp = "500"]
    /\ UNCHANGED <<now, limit, window, noteVars, authVars>>

\* a client that sends its next request once the previous one was answered,
\* with the store available
SeqDispatchGet(c) ==
    /\ RateDone
    /\ DispatchGet(c, TRUE)

SeqDispatchSet(i) == DispatchSet(i, TRUE)

RateTick ==
    /\ now < MaxRateTime
    /\ now' = now + 1
    /\ redis' = RedisExpire(now + 1)
    /\ UNCHANGED <<rateVars, noteVars, authVars>>

InitRate ==
    /\ now = 0
    /\ redis = <<>>
    /\ limit \in 1..MaxLimit
    /\ window \in 1..MaxWindow
    /\ rreqs = <<>>
    /\ notes = <<>>
    /\ nextId = 1
    /\ nreqs = <<>>
    /\ muts = [u \in Users |-> 0]
    /\ users = <<>>
    /\ issued = {}
    /\ auth = NoCall
    /\ call = NoReply

NextRate ==
    \/ \E c \in Clients, up \in BOOLEAN : DispatchGet(c, up)
    \/ \E i \in 1..MaxRateReqs, up \in BOOLEAN : DispatchSet(i, up)
    \/ RateTick

SpecRate == InitRate /\ [][NextRate]_vars

NextRateSeq ==
    \/ \E c \in Clients : SeqDispatchGet(c)
    \/ \E i \in 1..MaxRateReqs : SeqDispatchSet(i)
    \/ RateTick

SpecRateSeq == InitRate /\ [][NextRateSeq]_vars

\* ------------------------------------------------- rate limiter: claims
\* index of the window bucket a timestamp falls in
Bucket(t) == t \div window

\* requests of client c stamped in bucket b
InBucket(c, b) ==
    {i \in 1..Len(rreqs) : rreqs[i].client = c /\ Bucket(rreqs[i].t) = b}

Forwarded(c, b) == {i \in InBucket(c, b) : rreqs[i].resp = "forwarded"}

\* requests of the same client and bucket that entered before request i
EarlierInBucket(i) ==
    {j \in InBucket(rreqs[i].client, Bucket(rreqs[i].t)) : j < i}

\* C1: under any interleaving of one client's requests stamped in the same
\* bucket, at most limit are forwarded, and every other request that the
\* limiter answered from the counter gets 429.
C1_AtMostLimitForwarded ==
    \A c \in Clients, b \in 0..MaxRateTime :
        /\ Cardinality(Forwarded(c, b)) <= limit
        /\ \A i \in InBucket(c, b) \ Forwarded(c, b) :
              (rreqs[i].pc = "done" /\ ~rreqs[i].storeFailed)
                  => rreqs[i].resp = "429"

\* C2: requests of one client sent one after another in a single bucket:
\* the first limit are forwarded, the (limit+1)-th and all later get 429.
C2_SequentialCeiling ==
    \A i \in 1..Len(rreqs) :
        rreqs[i].pc = "done" =>
            rreqs[i].resp = IF Cardinality(EarlierInBucket(i)) < limit
                            THEN "forwarded" ELSE "429"

C2_Witness ==
    \E i \in 1..Len(rreqs) :
        /\ rreqs[i].pc = "done"
        /\ Cardinality(EarlierInBucket(i)) = limit
        /\ rreqs[i].resp = "429"
        /\ \A j \in EarlierInBucket(i) : rreqs[j].resp = "forwarded"

\* request i is the next request of its client after request j
NextOfClient(j, i) ==
    /\ j < i
    /\ rreqs[i].client = rreqs[j].client
    /\ \A k \in (j + 1)..(i - 1) : rreqs[k].client # rreqs[j].client

\* request j was rejected and request i is the same client's next request,
\* made at least one window length after j
RetryAfterWindow(j, i) ==
    /\ NextOfClient(j, i)
    /\ rreqs[j].resp = "429"
    /\ rreqs[i].pc = "done"
    /\ rreqs[i].t >= rreqs[j].t + window

\* C3: after a rejection, the client's request made one window length later
\* is forwarded, however many requests were rejected in the earlier bucket.
C3_FreshWindowForwarded ==
    \A j \in 1..Len(rreqs), i \in 1..Len(rreqs) :
        RetryAfterWindow(j, i) => rreqs[i].resp = "forwarded"

C3_Witness ==
    \E j \in 1..Len(rreqs), i \in 1..Len(rreqs) :
        /\ RetryAfterWindow(j, i)
        /\ rreqs[i].t = rreqs[j].t + window
        /\ rreqs[i].resp = "forwarded"

\* C8: a request during whose handling the counter store failed is answered
\* 429: it is neither forwarded nor ended by an unhandled error.
C8_FailClosed ==
    \A i \in 1..Len(rreqs) :
        (rreqs[i].pc = "done" /\ rreqs[i].storeFailed)
            => rreqs[i].resp = "429"

\* C19: when every request of a client stamped in one bucket has completed
\* dispatch, the counter stored for that client and bucket is the number of
\* those requests, however their GETs and SETs interleaved.
C19_NoLostUpdate ==
    \A c \in Clients, b \in 0..MaxRateTime :
        LET key == <<"rate", c, b * window>>
        IN  (/\ InBucket(c, b) # {}
             /\ \A i \in InBucket(c, b) :
                   rreqs[i].pc = "done" /\ ~rreqs[i].storeFailed
             /\ key \in DOMAIN redis) =>
                redis[key].val = Cardinality(InBucket(c, b))

\* forwarded requests of client c stamped in the seconds s..e
ForwardedIn(c, s, e) ==
    {i \in 1..Len(rreqs) :
        /\ rreqs[i].client = c
        /\ rreqs[i].resp = "forwarded"
        /\ s <= rreqs[i].t
        /\ rreqs[i].t <= e}

\* C21: for requests of one client sent one after another, at most 2*limit
\* are forwarded in any interval of one window length, and at most limit in
\* any interval that lies inside one bucket. An interval that holds forwarded
\* requests is covered by the one that starts at the stamp of its first
\* request, so the intervals are taken from the stamp of each request: one
\* window length on (the seconds t..t+window), and up to the end of the bucket.
C21_WindowBound ==
    \A i \in 1..Len(rreqs) :
        LET c == rreqs[i].client
            t == rreqs[i].t
        IN  /\ Cardinality(ForwardedIn(c, t, t + window)) <= 2 * limit
            /\ Cardinality(
                   ForwardedIn(c, t, (Bucket(t) + 1) * window - 1)) <= limit

\* 2*limit requests forwarded within one window length, across a bucket edge
C21_Witness ==
    \E c \in Clients, s \in 0..MaxRateTime :
        /\ Cardinality(ForwardedIn(c, s, s + window - 1)) = 2 * limit
        /\ Bucket(s) # Bucket(s + window - 1)
        /\ Cardinality(ForwardedIn(c, s, s)) = limit

\* requests that a step creates or moves
RateActing ==
    {i \in 1..Len(rreqs') : i > Len(rreqs) \/ rreqs'[i] # rreqs[i]}

\* counter keys that a step writes
RateWritten ==
    {k \in DOMAIN redis' : k \notin DOMAIN redis \/ redis'[k] # redis[k]}

\* ws is the start of the bucket that holds second t
BucketOf(ws, t) == ws % window = 0 /\ ws <= t /\ t < ws + window

\* C22: a counter key written by dispatch for a request stamped now names the
\* one bucket that holds now (its window_start is a multiple of window_length
\* with window_start <= now < window_start + window_length), and the GET of
\* a request reads the counter of that bucket and of no other.
C22_OneBucketPerRequest ==
    [][
        /\ \A k \in RateWritten : \E i \in RateActing :
              /\ k = <<"rate", rreqs'[i].client, k[3]>>
              /\ BucketOf(k[3], rreqs'[i].t)
        /\ \A i \in RateActing : i > Len(rreqs) =>
              \A ws \in 0..MaxRateTime : BucketOf(ws, rreqs'[i].t) =>
                  rreqs'[i].count
                      = RedisGet(<<"rate", rreqs'[i].client, ws>>)]_vars

\* a request stamped after the start of its bucket wrote that bucket's key
C22_Witness ==
    \E i \in 1..Len(rreqs) :
        /\ rreqs[i].pc = "done"
        /\ rreqs[i].t % window # 0
        /\ rreqs[i].t = now
        /\ <<"rate", rreqs[i].client, rreqs[i].t - (rreqs[i].t % window)>>
               \in DOMAIN redis
        /\ <<"rate", rreqs[i].client, rreqs[i].t>> \notin DOMAIN redis

\* C27: the expiry given to a bucket's counter is at or after the end of the
\* bucket, and while the clock is inside the bucket of an answered request
\* the counter of that bucket is still in the store.
C27_CounterOutlivesBucket ==
    /\ \A k \in DOMAIN redis :
          k[1] = "rate" => redis[k].exp >= k[3] + window
    /\ \A i \in 1..Len(rreqs) :
          (rreqs[i].pc = "done" /\ Bucket(now) = Bucket(rreqs[i].t))
              => RedisGet(WindowKey(rreqs[i].client, rreqs[i].t, window))
                     # None

\* a request late in its bucket found the count of an earlier second
C27_Witness ==
    \E i \in 1..Len(rreqs) : \E j \in EarlierInBucket(i) :
        /\ rreqs[i].pc = "done"
        /\ rreqs[j].t < rreqs[i].t
        /\ rreqs[i].count = Some(Cardinality(EarlierInBucket(i)) + 1)
        /\ redis[WindowKey(rreqs[i].client, rreqs[i].t, window)].exp
               > WindowStart(rreqs[i].t, window) + window

\* C28: a request changes the counter of its own client only, counters go
\* away by expiry only, and the count a request finds is the number of its
\* own client's earlier requests in the bucket, whatever other clients sent.
C28_ClientsIndependent ==
    [][
        /\ \A k \in RateWritten : \E i \in RateActing :
              k[2] = rreqs'[i].client
        /\ (DOMAIN redis \ DOMAIN redis' # {}) => now' # now
        /\ \A i \in RateActing : i > Len(rreqs) =>
              LET own == {j \in 1..Len(rreqs) :
                            /\ rreqs[j].client = rreqs'[i].client
                            /\ Bucket(rreqs[j].t) = Bucket(rreqs'[i].t)}
              IN  rreqs'[i].count
                      = IF own = {} THEN None ELSE Some(Cardinality(own))]_vars

\* one client is over its limit and the other is forwarded in the same bucket
C28_Witness ==
    \E j \in 1..Len(rreqs), i \in 1..Len(rreqs) :
        /\ j < i
        /\ rreqs[j].client # rreqs[i].client
        /\ Bucket(rreqs[j].t) = Bucket(rreqs[i].t)
        /\ rreqs[j].resp = "429"
        /\ rreqs[i].resp = "forwarded"

\* ------------------------------------------------------------ note handlers
\* requests that enter the note handlers in one behaviour
MaxNoteReqs == 3
\* the listing entries' time to live (ex=60, notes.py line 84) in clock ticks
TtlTicks == 2
\* the clock of the note handlers runs for one time to live, so that an entry
\* written at the start expires
MaxNoteTime == TtlTicks

Titles == {<<"a">>, <<"B">>}

Contents == {<<"x">>}

\* (skip, limit, search) of the listing calls
QueryShapes ==
    { [skip |-> 0, limit |-> 2, search |-> None],
      [skip |-> 1, limit |-> 1, search |-> None],
      [skip |-> 0, limit |-> 2, search |-> Some(<<"b">>)] }

\* bodies of PUT /notes/{id}: NoteUpdate(title, content), both optional
UpdateBodies ==
    { [title |-> Some(<<"B">>), content |-> None],
      [title |-> None, content |-> Some(<<"y">>)] }

\* note ids a request may name: the ids assigned so far, whoever owns the row
\* and whether or not it was deleted since
NoteIds == 1..(nextId - 1)

Lower(c) ==
    CASE c = "A" -> "a"
      [] c = "B" -> "b"
      [] c = "N" -> "n"
      [] OTHER -> c

LowerStr(str) == [k \in 1..Len(str) |-> Lower(str[k])]

\* title ILIKE '%term%': term occurs in title, letter case ignored
Ilike(title, term) ==
    \E k \in 1..(Len(title) - Len(term) + 1) :
        LowerStr(SubSeq(title, k, k + Len(term) - 1)) = LowerStr(term)

\* Python truth of an optional string: None and "" are false
Truthy(opt) == opt # None /\ opt[1] # <<>>

\* str() of an optional string inside an f-string
Str(opt) == IF opt = None THEN <<"N", "o", "n", "e">> ELSE opt[1]

RECURSIVE SortedIds(_)
SortedIds(S) ==
    IF S = {} THEN <<>>
    ELSE LET m == CHOOSE x \in S : \A y \in S : x <= y
         IN  <<m>> \o SortedIds(S \ {m})

Row(id) ==
    [id |-> id, title |-> notes[id].title, content |-> notes[id].content,
     owner_id |-> notes[id].owner_id]

\* select(Note).where(owner_id == uid)[.where(title.ilike)].offset().limit()
\* the rows come in primary-key order
QueryNotes(uid, skip, lim, search) ==
    LET ids == {id \in DOMAIN notes :
                   /\ notes[id].owner_id = uid
                   /\ (Truthy(search) => Ilike(notes[id].title, search[1]))}
        all == SortedIds(ids)
        last == IF skip + lim < Len(all) THEN skip + lim ELSE Len(all)
    IN  [k \in 1..(last - skip) |-> Row(all[skip + k])]

\* the key drops the owner
CacheKeyNoOwner(uid, skip, lim, search) ==
    <<"notes", 0, skip, lim, Str(search)>>

\* the key drops the search term
CacheKeyNoSearch(uid, skip, lim, search) ==
    <<"notes", uid, skip, lim, <<>> >>

\* f"notes:{current_user.id}:{skip}:{limit}:{search}"
CacheKey(uid, skip, lim, search) ==
    <<"notes", uid, skip, lim, Str(search)>>

\* f"notes:{current_user.id}:*"
OwnerPatternKey(uid) == <<"notes", uid, "*">>

IsListingKey(key) == Len(key) = 5 /\ key[1] = "notes"

\* the listing entries of owner uid that are in the store
ListingKeys(uid) ==
    {key \in DOMAIN redis : IsListingKey(key) /\ key[2] = uid}

\* a request record; hit, src, dbRead, seq and storeFailed are history
\* fields: src is the request whose SET stored the entry a hit was served
\* from, dbRead whether the handler read the note table, seq whether every
\* earlier request had been answered when this one arrived, storeFailed
\* whether a call to the Redis store raised while the request was handled
NoteReq(op, uid) ==
    [op |-> op, user |-> uid, skip |-> 0, limit |-> 0, search |-> None,
     note_id |-> 0, title |-> None, content |-> None,
     pc |-> "done", status |-> 0, result |-> <<>>,
     hit |-> FALSE, src |-> 0, dbRead |-> FALSE, storeFailed |-> FALSE,
     seq |-> \A i \in 1..Len(nreqs) : nreqs[i].pc = "done"]

\* the request keeps the cached listing although the entry is there
ServeListingReread(r, cached) ==
    [r EXCEPT !.pc = "query"]

\* get_notes, lines 76-78: the cached listing is returned as it was stored
ServeListing(r, cached) ==
    IF cached # None
    THEN [r EXCEPT !.pc = "done", !.status = 200, !.hit = TRUE,
                   !.src = cached[1].writer, !.result = cached[1].rows]
    ELSE [r EXCEPT !.pc = "query"]

\* a hit stores the entry again with a new time to live
GetNotesGetRefresh(u, q) ==
    /\ Len(nreqs) < MaxNoteReqs
    /\ LET r == [NoteReq("get_notes", u) EXCEPT !.skip = q.skip,
                    !.limit = q.limit, !.search = q.search]
           key == CacheKey(u, q.skip, q.limit, q.search)
           cached == RedisGet(key)
       IN  /\ nreqs' = Append(nreqs, ServeListing(r, cached))
           /\ redis' = IF cached # None
                       THEN RedisSet(key, cached[1], TtlTicks)
                       ELSE redis
    /\ UNCHANGED <<now, rateVars, authVars, notes, nextId, muts>>

\* get_notes, lines 73-78: GET of the listing key
GetNotesGet(u, q) ==
    /\ Len(nreqs) < MaxNoteReqs
    /\ LET r == [NoteReq("get_notes", u) EXCEPT !.skip = q.skip,
                    !.limit = q.limit, !.search = q.search]
           cached == RedisGet(CacheKey(u, q.skip, q.limit, q.search))
       IN  nreqs' = Append(nreqs, ServeListing(r, cached))
    /\ UNCHANGED <<now, redis, rateVars, authVars, notes, nextId, muts>>

\* get_notes, lines 79-82: the listing is read from the note table
GetNotesQuery(i) ==
    /\ i \in 1..Len(nreqs)
    /\ nreqs[i].op = "get_notes" /\ nreqs[i].pc = "query"
    /\ LET r == nreqs[i]
       IN  nreqs' = [nreqs EXCEPT ![i].pc = "set", ![i].dbRead = TRUE,
                        ![i].result =
                            QueryNotes(r.user, r.skip, r.limit, r.search)]
    /\ UNCHANGED <<now, redis, rateVars, authVars, notes, nextId, muts>>

\* get_notes, lines 83-85: SET of the serialized listing with ex=60.
\* writer and epoch are history fields of the entry: the request that
\* stored it and the owner's count of committed mutations at that time
GetNotesSet(i) ==
    /\ i \in 1..Len(nreqs)
    /\ nreqs[i].op = "get_notes" /\ nreqs[i].pc = "set"
    /\ LET r == nreqs[i]
       IN  redis' = RedisSet(CacheKey(r.user, r.skip, r.limit, r.search),
                       [rows |-> r.result, writer |-> i,
                        epoch |-> muts[r.user]],
                       TtlTicks)
    /\ nreqs' = [nreqs EXCEPT ![i].pc = "done", ![i].status = 200]
    /\ UNCHANGED <<now, rateVars, authVars, notes, nextId, muts>>

\* create_note, lines 37-45
CreateNote(u, title, content) ==
    /\ Len(nreqs) < MaxNoteReqs
    /\ notes' = [id \in (DOMAIN notes) \cup {nextId} |->
                    IF id = nextId
                    THEN [title |-> title, content |-> content, owner_id |-> u]
                    ELSE notes[id]]
    /\ nextId' = nextId + 1
    /\ muts' = [muts EXCEPT ![u] = @ + 1]
    /\ nreqs' = Append(nreqs,
                  [NoteReq("create_note", u) EXCEPT !.title = Some(title),
                      !.content = Some(content), !.note_id = nextId,
                      !.status = 201])
    /\ UNCHANGED <<now, redis, rateVars, authVars>>

\* update_note, lines 143-144: DEL before the row is looked up
UpdateNoteDelFirst(u, id, body) ==
    /\ Len(nreqs) < MaxNoteReqs
    /\ redis' = RedisDelete(OwnerPatternKey(u))
    /\ nreqs' = Append(nreqs,
                  [NoteReq("update_note", u) EXCEPT !.note_id = id,
                      !.title = body.title, !.content = body.content,
                      !.pc = "db"])
    /\ UNCHANGED <<now, rateVars, authVars, notes, nextId, muts>>

\* the fields that the body leaves out are emptied
UpdateNoteCommitOverwrite(i) ==
    /\ i \in 1..Len(nreqs)
    /\ nreqs[i].op = "update_note" /\ nreqs[i].pc = "db"
    /\ LET r == nreqs[i]
       IN  IF r.note_id \notin DOMAIN notes
           THEN /\ nreqs' = [nreqs EXCEPT ![i].pc = "done", ![i].status = 404,
                                ![i].dbRead = TRUE]
                /\ UNCHANGED <<notes, muts>>
           ELSE IF notes[r.note_id].owner_id # r.user
           THEN /\ nreqs' = [nreqs EXCEPT ![i].pc = "done", ![i].status = 403,
                                ![i].dbRead = TRUE]
                /\ UNCHANGED <<notes, muts>>
           ELSE /\ notes' = [notes EXCEPT
                      ![r.note_id].title =
                          IF r.title # None THEN r.title[1] ELSE <<>>,
                      ![r.note_id].content =
                          IF r.content # None THEN r.content[1] ELSE <<>>]
                /\ muts' = [muts EXCEPT ![r.user] = @ + 1]
                /\ nreqs' = [nreqs EXCEPT ![i].pc = "inval",
                                ![i].dbRead = TRUE]
    /\ UNCHANGED <<now, redis, rateVars, authVars, nextId>>

\* update_note, lines 145-155: 404, 403, or the fields are set and committed
UpdateNoteCommit(i) ==
    /\ i \in 1..Len(nreqs)
    /\ nreqs[i].op = "update_note" /\ nreqs[i].pc = "db"
    /\ LET r == nreqs[i]
       IN  IF r.note_id \notin DOMAIN notes
           THEN /\ nreqs' = [nreqs EXCEPT ![i].pc = "done", ![i].status = 404,
                                ![i].dbRead = TRUE]
                /\ UNCHANGED <<notes, muts>>
           ELSE IF notes[r.note_id].owner_id # r.user
           THEN /\ nreqs' = [nreqs EXCEPT ![i].pc = "done", ![i].status = 403,
                                ![i].dbRead = TRUE]
                /\ UNCHANGED <<notes, muts>>
           ELSE /\ notes' = [notes EXCEPT
                      ![r.note_id].title =
                          IF r.title # None THEN r.title[1] ELSE @,
                      ![r.note_id].content =
                          IF r.content # None THEN r.content[1] ELSE @]
                /\ muts' = [muts EXCEPT ![r.user] = @ + 1]
                /\ nreqs' = [nreqs EXCEPT ![i].pc = "inval",
                                ![i].dbRead = TRUE]
    /\ UNCHANGED <<now, redis, rateVars, authVars, nextId>>

\* update_note, lines 156-158: DEL after the commit, then the note is returned
UpdateNoteReturn(i) ==
    /\ i \in 1..Len(nreqs)
    /\ nreqs[i].op = "update_note" /\ nreqs[i].pc = "inval"
    /\ redis' = RedisDelete(OwnerPatternKey(nreqs[i].user))
    /\ nreqs' = [nreqs EXCEPT ![i].pc = "done", ![i].status = 200]
    /\ UNCHANGED <<now, rateVars, authVars, notes, nextId, muts>>

\* the row is deleted whoever owns it
DeleteNoteCommitAnyOwner(u, id) ==
    /\ Len(nreqs) < MaxNoteReqs
    /\ LET r == [NoteReq("delete_note", u) EXCEPT !.note_id = id,
                    !.dbRead = TRUE]
       IN  IF id \notin DOMAIN notes
           THEN /\ nreqs' = Append(nreqs, [r EXCEPT !.status = 404])
                /\ UNCHANGED <<notes, muts>>
           ELSE /\ notes' = [k \in (DOMAIN notes) \ {id} |-> notes[k]]
                /\ muts' = [muts EXCEPT ![u] = @ + 1]
                /\ nreqs' = Append(nreqs, [r EXCEPT !.pc = "inval"])
    /\ UNCHANGED <<now, redis, rateVars, authVars, nextId>>

\* delete_note, lines 177-183: 404, 403, or the row is deleted and committed
DeleteNoteCommit(u, id) ==
    /\ Len(nreqs) < MaxNoteReqs
    /\ LET r == [NoteReq("delete_note", u) EXCEPT !.note_id = id,
                    !.dbRead = TRUE]
       IN  IF id \notin DOMAIN notes
           THEN /\ nreqs' = Append(nreqs, [r EXCEPT !.status = 404])
                /\ UNCHANGED <<notes, muts>>
           ELSE IF notes[id].owner_id # u
           THEN /\ nreqs' = Append(nreqs, [r EXCEPT !.status = 403])
                /\ UNCHANGED <<notes, muts>>
           ELSE /\ notes' = [k \in (DOMAIN notes) \ {id} |-> notes[k]]
                /\ muts' = [muts EXCEPT ![u] = @ + 1]
                /\ nreqs' = Append(nreqs, [r EXCEPT !.pc = "inval"])
    /\ UNCHANGED <<now, redis, rateVars, authVars, nextId>>

\* delete_note, lines 184-186: DEL after the commit
DeleteNoteReturn(i) ==
    /\ i \in 1..Len(nreqs)
    /\ nreqs[i].op = "delete_note" /\ nreqs[i].pc = "inval"
    /\ redis' = RedisDelete(OwnerPatternKey(nreqs[i].user))
    /\ nreqs' = [nreqs EXCEPT ![i].pc = "done", ![i].status = 204]
    /\ UNCHANGED <<now, rateVars, authVars, notes, nextId, muts>>

\* get_note, lines 111-116: 404, 403, or the row is returned
GetNote(u, id) ==
    /\ Len(nreqs) < MaxNoteReqs
    /\ LET r == [NoteReq("get_note", u) EXCEPT !.note_id = id,
                    !.dbRead = TRUE]
       IN  nreqs' = Append(nreqs,
              IF id \notin DOMAIN notes
              THEN [r EXCEPT !.status = 404]
              ELSE IF notes[id].owner_id # u
              THEN [r EXCEPT !.status = 403]
              ELSE [r EXCEPT !.status = 200, !.result = <<Row(id)>>])
    /\ UNCHANGED <<now, redis, rateVars, authVars, notes, nextId, muts>>

NoteTick ==
    /\ now < MaxNoteTime
    /\ now' = now + 1
    /\ redis' = RedisExpire(now + 1)
    /\ UNCHANGED <<rateVars, noteVars, authVars>>

\* app.add_middleware(RateLimiterMiddleware, limit=.., window=..): the
\* limiter is constructed; the note handlers do not read its fields
InitNotes ==
    /\ now = 0
    /\ redis = <<>>
    /\ limit = MaxLimit
    /\ window = MaxWindow
    /\ rreqs = <<>>
    /\ notes = <<>>
    /\ nextId = 1
    /\ nreqs = <<>>
    /\ muts = [u \in Users |-> 0]
    /\ users = <<>>
    /\ issued = {}
    /\ auth = NoCall
    /\ call = NoReply

NextNotes ==
    \/ \E u \in Users, q \in QueryShapes : GetNotesGet(u, q)
    \/ \E i \in 1..MaxNoteReqs : GetNotesQuery(i)
    \/ \E i \in 1..MaxNoteReqs : GetNotesSet(i)
    \/ \E u \in Users, t \in Titles, c \in Contents : CreateNote(u, t, c)
    \/ \E u \in Users, id \in NoteIds, b \in UpdateBodies :
          UpdateNoteDelFirst(u, id, b)
    \/ \E i \in 1..MaxNoteReqs : UpdateNoteCommit(i)
    \/ \E i \in 1..MaxNoteReqs : UpdateNoteReturn(i)
    \/ \E u \in Users, id \in NoteIds : DeleteNoteCommit(u, id)
    \/ \E i \in 1..MaxNoteReqs : DeleteNoteReturn(i)
    \/ NoteTick

SpecNotes == InitNotes /\ [][NextNotes]_vars

\* every request that entered a note handler was answered
NotesDone == \A i \in 1..Len(nreqs) : nreqs[i].pc = "done"

\* the note handlers with requests that arrive one after another: a request
\* arrives once every earlier one was answered
SeqGetNotesGet(u, q) == NotesDone /\ GetNotesGet(u, q)

SeqCreateNote(u, title, content) == NotesDone /\ CreateNote(u, title, content)

SeqUpdateNoteDelFirst(u, id, body) ==
    NotesDone /\ UpdateNoteDelFirst(u, id, body)

SeqDeleteNoteCommit(u, id) == NotesDone /\ DeleteNoteCommit(u, id)

NextNotesSeq ==
    \/ \E u \in Users, q \in QueryShapes : SeqGetNotesGet(u, q)
    \/ \E i \in 1..MaxNoteReqs : GetNotesQuery(i)
    \/ \E i \in 1..MaxNoteReqs : GetNotesSet(i)
    \/ \E u \in Users, t \in Titles, c \in Contents : SeqCreateNote(u, t, c)
    \/ \E u \in Users, id \in NoteIds, b \in UpdateBodies :
          SeqUpdateNoteDelFirst(u, id, b)
    \/ \E i \in 1..MaxNoteReqs : UpdateNoteCommit(i)
    \/ \E i \in 1..MaxNoteReqs : UpdateNoteReturn(i)
    \/ \E u \in Users, id \in NoteIds : SeqDeleteNoteCommit(u, id)
    \/ \E i \in 1..MaxNoteReqs : DeleteNoteReturn(i)
    \/ NoteTick

SpecNotesSeq == InitNotes /\ [][NextNotesSeq]_vars

\* --------------------------------- note handlers: one note is addressed
\* The handlers that name a note by its id, with two users whose requests
\* arrive one after another. A request names an id that was assigned (the
\* row may be another user's, or deleted since) or the id not assigned yet.
SeqGetNote(u, id) == NotesDone /\ GetNote(u, id)

AddressedIds == 1..nextId

NextNotesAccess ==
    \/ \E u \in Users, t \in Titles, c \in Contents : SeqCreateNote(u, t, c)
    \/ \E u \in Users, id \in AddressedIds : SeqGetNote(u, id)
    \/ \E u \in Users, id \in AddressedIds, b \in UpdateBodies :
          SeqUpdateNoteDelFirst(u, id, b)
    \/ \E i \in 1..MaxNoteReqs : UpdateNoteCommit(i)
    \/ \E i \in 1..MaxNoteReqs : UpdateNoteReturn(i)
    \/ \E u \in Users, id \in AddressedIds : SeqDeleteNoteCommit(u, id)
    \/ \E i \in 1..MaxNoteReqs : DeleteNoteReturn(i)

SpecNotesAccess == InitNotes /\ [][NextNotesAccess]_vars

\* ------------------------------------- note handlers: the store is down
\* No note handler catches an exception of a Redis call: the exception leaves
\* the handler and the request is answered 500.
Unhandled(r) == [r EXCEPT !.pc = "done", !.status = 500, !.storeFailed = TRUE]

\* get_notes, lines 73-75: redis.get raises
GetNotesGetDown(u, q) ==
    /\ Len(nreqs) < MaxNoteReqs
    /\ nreqs' = Append(nreqs,
                  Unhandled([NoteReq("get_notes", u) EXCEPT !.skip = q.skip,
                                !.limit = q.limit, !.search = q.search]))
    /\ UNCHANGED <<now, redis, rateVars, authVars, notes, nextId, muts>>

\* get_notes, line 84: redis.set raises after the table was read
GetNotesSetDown(i) ==
    /\ i \in 1..Len(nreqs)
    /\ nreqs[i].op = "get_notes" /\ nreqs[i].pc = "set"
    /\ nreqs' = [nreqs EXCEPT ![i] = Unhandled(@)]
    /\ UNCHANGED <<now, redis, rateVars, authVars, notes, nextId, muts>>

\* update_note, lines 143-144: the first redis.delete raises
UpdateNoteDelFirstDown(u, id, body) ==
    /\ Len(nreqs) < MaxNoteReqs
    /\ nreqs' = Append(nreqs,
                  Unhandled([NoteReq("update_note", u) EXCEPT !.note_id = id,
                                !.title = body.title,
                                !.content = body.content]))
    /\ UNCHANGED <<now, redis, rateVars, authVars, notes, nextId, muts>>

\* the exception is caught and the note returned as after an invalidation
UpdateNoteReturnSwallowed(i) ==
    /\ i \in 1..Len(nreqs)
    /\ nreqs[i].op = "update_note" /\ nreqs[i].pc = "inval"
    /\ nreqs' = [nreqs EXCEPT ![i].pc = "done", ![i].status = 200,
                     ![i].storeFailed = TRUE]
    /\ UNCHANGED <<now, redis, rateVars, authVars, notes, nextId, muts>>

\* update_note, lines 156-158: redis.delete raises after the commit
UpdateNoteReturnDown(i) ==
    /\ i \in 1..Len(nreqs)
    /\ nreqs[i].op = "update_note" /\ nreqs[i].pc = "inval"
    /\ nreqs' = [nreqs EXCEPT ![i] = Unhandled(@)]
    /\ UNCHANGED <<now, redis, rateVars, authVars, notes, nextId, muts>>

\* delete_note, lines 184-186: redis.delete raises after the commit
DeleteNoteReturnDown(i) ==
    /\ i \in 1..Len(nreqs)
    /\ nreqs[i].op = "delete_note" /\ nreqs[i].pc = "inval"
    /\ nreqs' = [nreqs EXCEPT ![i] = Unhandled(@)]
    /\ UNCHANGED <<now, redis, rateVars, authVars, notes, nextId, muts>>

\* the owner whose requests are followed when one owner is looked at
Owner == 1

\* the listing call of that owner
OwnerQueries == {[skip |-> 0, limit |-> 2, search |-> None]}

\* the requests of one owner arrive one after another and any Redis call
\* may raise
NextNotesOutage ==
    \/ \E q \in QueryShapes : SeqGetNotesGet(Owner, q)
    \/ \E q \in QueryShapes : NotesDone /\ GetNotesGetDown(Owner, q)
    \/ \E i \in 1..MaxNoteReqs : GetNotesQuery(i)
    \/ \E i \in 1..MaxNoteReqs : GetNotesSet(i)
    \/ \E i \in 1..MaxNoteReqs : GetNotesSetDown(i)
    \/ \E t \in Titles, c \in Contents : SeqCreateNote(Owner, t, c)
    \/ \E id \in NoteIds, b \in UpdateBodies :
          SeqUpdateNoteDelFirst(Owner, id, b)
    \/ \E id \in NoteIds, b \in UpdateBodies :
          NotesDone /\ UpdateNoteDelFirstDown(Owner, id, b)
    \/ \E i \in 1..MaxNoteReqs : UpdateNoteCommit(i)
    \/ \E i \in 1..MaxNoteReqs : UpdateNoteReturn(i)
    \/ \E i \in 1..MaxNoteReqs : UpdateNoteReturnDown(i)
    \/ \E id \in NoteIds : SeqDeleteNoteCommit(Owner, id)
    \/ \E i \in 1..MaxNoteReqs : DeleteNoteReturn(i)
    \/ \E i \in 1..MaxNoteReqs : DeleteNoteReturnDown(i)
    \/ NoteTick

SpecNotesOutage == InitNotes /\ [][NextNotesOutage]_vars

\* ------------------------------- note handlers: the search term "None"
\* One owner lists with no search term and with the search term "None",
\* and creates notes, one request after another.
SearchShapes ==
    { [skip |-> 0, limit |-> 2, search |-> None],
      [skip |-> 0, limit |-> 2, search |-> Some(<<"N", "o", "n", "e">>)] }

NextNotesSearch ==
    \/ \E q \in SearchShapes : SeqGetNotesGet(Owner, q)
    \/ \E i \in 1..MaxNoteReqs : GetNotesQuery(i)
    \/ \E i \in 1..MaxNoteReqs : GetNotesSet(i)
    \/ \E t \in Titles, c \in Contents : SeqCreateNote(Owner, t, c)
    \/ NoteTick

SpecNotesSearch == InitNotes /\ [][NextNotesSearch]_vars

\* ------------------------------- note handlers: one owner, concurrently
\* the service is started on a note table that holds a note of the owner
InitNotesOwner ==
    /\ now = 0
    /\ redis = <<>>
    /\ limit = MaxLimit
    /\ window = MaxWindow
    /\ rreqs = <<>>
    /\ notes \in {[id \in {1} |->
                     [title |-> t, content |-> c, owner_id |-> Owner]] :
                  t \in Titles, c \in Contents}
    /\ nextId = 2
    /\ nreqs = <<>>
    /\ muts = [u \in Users |-> 0]
    /\ users = <<>>
    /\ issued = {}
    /\ auth = NoCall
    /\ call = NoReply

\* listing reads and mutations of the owner in any interleaving
NextNotesOwner ==
    \/ \E q \in OwnerQueries : GetNotesGet(Owner, q)
    \/ \E i \in 1..MaxNoteReqs : GetNotesQuery(i)
    \/ \E i \in 1..MaxNoteReqs : GetNotesSet(i)
    \/ \E t \in Titles, c \in Contents : CreateNote(Owner, t, c)
    \/ \E id \in NoteIds, b \in UpdateBodies :
          UpdateNoteDelFirst(Owner, id, b)
    \/ \E i \in 1..MaxNoteReqs : UpdateNoteCommit(i)
    \/ \E i \in 1..MaxNoteReqs : UpdateNoteReturn(i)
    \/ \E id \in NoteIds : DeleteNoteCommit(Owner, id)
    \/ \E i \in 1..MaxNoteReqs : DeleteNoteReturn(i)
    \/ NoteTick

SpecNotesOwner == InitNotesOwner /\ [][NextNotesOwner]_vars

\* ------------------------------- the middleware in front of the handlers
\* requests that dispatch passed on with call_next
ForwardedReqs == {i \in 1..Len(rreqs) : rreqs[i].resp = "forwarded"}

\* every request that dispatch answered reaches a handler
CallNextAnswered ==
    Len(nreqs) < Cardinality({i \in 1..Len(rreqs) : rreqs[i].pc = "done"})

\* dispatch, lines 26-28: call_next(request) runs the handler of a request
\* that was forwarded, and a request answered 429 has returned before it
CallNext == Len(nreqs) < Cardinality(ForwardedReqs)

\* a request enters dispatch once the one before it was answered, by
\* dispatch with 429 or by the handler that call_next ran
AppDispatchGet(c) ==
    /\ ~CallNext
    /\ NotesDone
    /\ SeqDispatchGet(c)

\* app.add_middleware, main.py line 66: every request passes dispatch, and
\* behind it run create_note and get_notes of the owner
NextApp ==
    \/ \E c \in Clients : AppDispatchGet(c)
    \/ \E i \in 1..MaxRateReqs : SeqDispatchSet(i)
    \/ \E q \in OwnerQueries : CallNext /\ SeqGetNotesGet(Owner, q)
    \/ \E i \in 1..MaxNoteReqs : GetNotesQuery(i)
    \/ \E i \in 1..MaxNoteReqs : GetNotesSet(i)
    \/ \E t \in Titles, c \in Contents :
          CallNext /\ SeqCreateNote(Owner, t, c)
    \/ NoteTick

SpecApp == InitNotes /\ [][NextApp]_vars

\* ------------------------------------------------- note handlers: claims
Done(i) == nreqs[i].pc = "done"

IsListing(i) == nreqs[i].op = "get_notes"

SameQuery(j, k) ==
    /\ IsListing(j) /\ IsListing(k)
    /\ nreqs[j].user = nreqs[k].user
    /\ nreqs[j].skip = nreqs[k].skip
    /\ nreqs[j].limit = nreqs[k].limit
    /\ nreqs[j].search = nreqs[k].search

\* a mutation of owner u is committed and its handler has not returned yet
Returning(u) ==
    \E i \in 1..Len(nreqs) : nreqs[i].user = u /\ nreqs[i].pc = "inval"

\* C4: once the successful mutations of an owner have returned, the store
\* holds no listing entry of that owner that was stored before the latest of
\* them was committed, whatever query produced the entry.
C4_NoEntrySurvivesMutation ==
    \A u \in Users :
        ~Returning(u) =>
            \A key \in ListingKeys(u) : redis[key].val.epoch = muts[u]

\* requests k-2, k-1, k: a listing, a successful create by the same owner
\* that arrived after the listing was answered, and the same listing again,
\* arrived after the create was answered
ListCreateList(k) ==
    /\ k >= 3
    /\ SameQuery(k - 2, k)
    /\ Done(k - 2) /\ Done(k)
    /\ nreqs[k - 1].op = "create_note"
    /\ nreqs[k - 1].user = nreqs[k].user
    /\ nreqs[k - 1].status = 201
    /\ nreqs[k - 1].seq /\ nreqs[k].seq

\* C5: list, create, list again with nothing in between: the second listing
\* is what the note table holds for that query after the creation.
C5_ListingReflectsCreate ==
    LET k == Len(nreqs)
    IN  ListCreateList(k) =>
            nreqs[k].result =
                QueryNotes(nreqs[k].user, nreqs[k].skip, nreqs[k].limit,
                           nreqs[k].search)

\* the entry that listing request j stored is still in the store
EntryOf(j) ==
    \E key \in DOMAIN redis :
        IsListingKey(key) /\ redis[key].val.writer = j

\* C6: a listing that misses reads the note table and stores what it returns
\* under the key of its query; an identical call of the same owner that
\* arrives while that entry lives is served from it: the same rows, and no
\* read of the note table.
C6_ReadThrough ==
    \A k \in 1..Len(nreqs) :
        IsListing(k) =>
            /\ nreqs[k].hit =>
                  /\ ~nreqs[k].dbRead
                  /\ nreqs[k].src \in 1..(k - 1)
                  /\ SameQuery(nreqs[k].src, k)
                  /\ ~nreqs[nreqs[k].src].hit
                  /\ nreqs[k].result = nreqs[nreqs[k].src].result
            /\ (Done(k) /\ ~nreqs[k].hit) => nreqs[k].dbRead
            /\ \A key \in DOMAIN redis :
                  (IsListingKey(key) /\ redis[key].val.writer = k) =>
                      /\ key[2] = nreqs[k].user
                      /\ key[3] = nreqs[k].skip
                      /\ key[4] = nreqs[k].limit
                      /\ key[5] = Str(nreqs[k].search)
                      /\ redis[key].val.rows = nreqs[k].result
            /\ \A j \in 1..(k - 1) :
                  (SameQuery(j, k) /\ nreqs[k].seq /\ EntryOf(j))
                      => (nreqs[k].hit /\ nreqs[k].src = j)

C6_Witness ==
    \E j \in 1..Len(nreqs), k \in 1..Len(nreqs) :
        /\ j < k
        /\ SameQuery(j, k)
        /\ nreqs[j].dbRead /\ Done(j)
        /\ nreqs[k].hit /\ nreqs[k].src = j
        /\ nreqs[k].result # <<>>
        /\ ~nreqs[k].dbRead

\* requests that take a step: the one that arrives or whose record changes
Acting ==
    {i \in 1..Len(nreqs') : i > Len(nreqs) \/ nreqs'[i] # nreqs[i]}

\* the step removes or changes the entry under key
Touched(key) == key \notin DOMAIN redis' \/ redis'[key] # redis[key]

\* every listing served to a user comes from an entry that user's own
\* request stored, holds only that user's notes, and every entry is under a
\* key of the user whose request stored it
OwnListingsOnly ==
    /\ \A k \in 1..Len(nreqs) :
          IsListing(k) =>
              /\ nreqs[k].hit => nreqs[nreqs[k].src].user = nreqs[k].user
              /\ \A n \in 1..Len(nreqs[k].result) :
                    nreqs[k].result[n].owner_id = nreqs[k].user
    /\ \A key \in DOMAIN redis :
          IsListingKey(key) => nreqs[redis[key].val.writer].user = key[2]

\* C7: no step of a request of owner A removes or changes a listing entry of
\* another owner B (an entry of B goes only by its own expiry or by a request
\* of B), and no listing returned to A comes from an entry of B or holds a
\* note that A does not own.
C7_NoCrossOwnerCache ==
    [][ /\ OwnListingsOnly'
        /\ \A u \in Users : \A key \in ListingKeys(u) :
              Touched(key) =>
                  \/ now' > now
                  \/ \A i \in Acting : nreqs'[i].user = u ]_vars

\* an entry of one owner is in the store after a later, successful mutation
\* of another owner, who also was served a listing of own notes
C7_Witness ==
    \E u \in Users : \E key \in ListingKeys(u) :
        \E i \in 1..Len(nreqs), k \in 1..Len(nreqs) :
            /\ nreqs[i].user # u
            /\ i > redis[key].val.writer
            /\ nreqs[i].op \in {"create_note", "update_note", "delete_note"}
            /\ nreqs[i].status \in {200, 201, 204}
            /\ IsListing(k) /\ Done(k) /\ k > i
            /\ nreqs[k].user = nreqs[i].user
            /\ nreqs[k].result # <<>>

\* request i runs a DEL of its owner's pattern key in this step and the
\* store answers: the first DEL of update_note, or the DEL after a commit
Invalidates(i) ==
    /\ i \in Acting
    /\ nreqs'[i].op \in {"update_note", "delete_note"}
    /\ ~nreqs'[i].storeFailed
    /\ \/ i > Len(nreqs) /\ nreqs'[i].pc = "db"
       \/ i <= Len(nreqs) /\ nreqs[i].pc = "inval"

\* C13: an invalidation for an owner who has no listing entry in the store
\* raises nothing and leaves the store as it was, and running the same
\* invalidation again on the store it leaves changes nothing more.
C13_InvalidationNoOp ==
    [][ \A i \in 1..Len(nreqs') :
          Invalidates(i) =>
              /\ nreqs'[i].status \in {0, 200, 204}
              /\ ListingKeys(nreqs'[i].user) = {} => redis' = redis
              /\ \A u \in Users :
                    nreqs'[i].user = u =>
                        RedisDelete(OwnerPatternKey(u))' = redis' ]_vars

\* an owner with no entry of their own completed a mutation, invalidation
\* included, while the store held an entry that another owner stored before
C13_Witness ==
    \E i \in 1..Len(nreqs) :
        /\ nreqs[i].op \in {"update_note", "delete_note"}
        /\ Done(i) /\ nreqs[i].status \in {200, 204}
        /\ ListingKeys(nreqs[i].user) = {}
        /\ \E key \in DOMAIN redis :
              IsListingKey(key) /\ redis[key].val.writer < i

\* C14: a listing request during which a call to the cache store raised is
\* still answered 200 with the rows read from the note table.
C14_ListingSurvivesOutage ==
    \A i \in 1..Len(nreqs) :
        (IsListing(i) /\ Done(i) /\ nreqs[i].storeFailed) =>
            /\ nreqs[i].status = 200
            /\ nreqs[i].dbRead

\* C15: a listing is served from an entry only while the entry's time to
\* live, counted from the SET that stored it, has not run out: a hit leaves
\* the entry and its expiry as they were, and an entry appears or changes
\* only by the SET of a listing that missed, with expiry now + ttl.
C15_ServedWithinTtl ==
    [][ /\ \A i \in Acting :
              (nreqs'[i].op = "get_notes" /\ nreqs'[i].hit) =>
                  LET key == CacheKey(nreqs'[i].user, nreqs'[i].skip,
                                      nreqs'[i].limit, nreqs'[i].search)
                  IN  /\ key \in DOMAIN redis
                      /\ redis[key].val.writer = nreqs'[i].src
                      /\ now < redis[key].exp
                      /\ redis' = redis
        /\ \A key \in DOMAIN redis' :
              IsListingKey(key) =>
                  /\ redis'[key].exp <= now' + TtlTicks
                  /\ (key \notin DOMAIN redis \/ redis[key] # redis'[key]) =>
                        /\ redis'[key].exp = now + TtlTicks
                        /\ redis'[key].val.writer \in Acting
                        /\ nreqs[redis'[key].val.writer].pc = "set" ]_vars

\* a listing queried the table before an update or delete of the same owner
\* committed and stored its rows after it; later on the clock, and after the
\* mutation returned, the same listing is served those rows from the entry
C15_Witness ==
    \E j \in 1..Len(nreqs), m \in 1..Len(nreqs), k \in 1..Len(nreqs) :
        /\ j < m /\ m < k
        /\ nreqs[m].op \in {"update_note", "delete_note"}
        /\ nreqs[m].status \in {200, 204}
        /\ nreqs[m].user = nreqs[k].user
        /\ nreqs[k].hit /\ nreqs[k].src = j /\ nreqs[k].seq
        /\ nreqs[k].result #
              QueryNotes(nreqs[k].user, nreqs[k].skip, nreqs[k].limit,
                         nreqs[k].search)
        /\ \E key \in DOMAIN redis :
              /\ redis[key].val.writer = j
              /\ redis[key].val.epoch >= 1
              /\ now > redis[key].exp - TtlTicks

\* C18: when the DEL that follows a committed update or delete raises, the
\* request is not answered with the handler's success response: the failure
\* reaches the client as an error.
C18_InvalidationFailureReported ==
    [][ \A i \in 1..Len(nreqs) :
          (nreqs[i].pc = "inval" /\ nreqs'[i].storeFailed) =>
              /\ nreqs'[i].status \notin {200, 204}
              /\ nreqs'[i].status >= 500 ]_vars

\* the DEL after a committed mutation raised and the request ended with 500
C18_Witness ==
    \E i \in 1..Len(nreqs) :
        /\ nreqs[i].op \in {"update_note", "delete_note"}
        /\ nreqs[i].storeFailed /\ nreqs[i].dbRead
        /\ muts[nreqs[i].user] >= 1
        /\ nreqs[i].status = 500

\* ----------------------------------------------------- tokens and identities
\* The clock of this part counts minutes.
\* tokens that create_access_token returns in one behaviour
MaxTokens == 1
\* longest expires_delta a caller passes, in minutes
MaxDelta == 2
\* the clock runs one minute past the longest supplied expires_delta
MaxAuthTime == MaxDelta + 1

ACCESS_TOKEN_EXPIRE_MINUTES == 30

SECRET_KEY == "1234567890abcdef1234567890abcdef1234567890abcdef1234567890abcdef"

\* a key the server does not hold
OtherKey == "attacker-key"

Usernames == {"amina", "user1"}

Passwords == {"password1", "password2"}

Salts == {"salt1"}

\* pwd_context.hash: a bcrypt digest carries its salt
HashPassword(password, salt) == <<"$2b$", salt, password>>

\* a stored password that no hasher produced: the row was written as text
PlainDigest(password) == <<password>>

\* the context (schemes=["bcrypt"]) tells a bcrypt digest by its prefix
Identified(hashed) == Len(hashed) = 3 /\ hashed[1] = "$2b$"

\* the password is not looked at
VerifyPasswordAny(password, hashed) ==
    IF ~Identified(hashed) THEN "UnknownHashError" ELSE "True"

\* pwd_context.verify: "True" or "False" for a digest of the bcrypt scheme,
\* and UnknownHashError is raised for any other stored string
VerifyPassword(password, hashed) ==
    IF ~Identified(hashed) THEN "UnknownHashError"
    ELSE IF hashed = HashPassword(password, hashed[2]) THEN "True"
    ELSE "False"

\* HS256 over the payload: only the holder of key can produce it
Sign(key, sub, exp) == <<key, sub, exp>>

\* jwt.encode: a well-formed token of payload {sub, exp}, signed with key
JwtEncode(sub, exp, key) ==
    [wf |-> TRUE, sub |-> sub, exp |-> exp, sig |-> Sign(key, sub, exp)]

\* create_access_token, lines 24-32. data is the optional "sub" claim and
\* expires_delta the optional number of minutes; at is the time of the call
CreateAccessToken(data, expires_delta, at) ==
    LET expire == IF expires_delta # None /\ expires_delta[1] # 0
                  THEN at + expires_delta[1]
                  ELSE at + 30
    IN  JwtEncode(data, expire, SECRET_KEY)

\* the expiry claim is not looked at
JwtDecodeNoExpiry(token, key, at) ==
    IF token.wf /\ token.sig = Sign(key, token.sub, token.exp)
    THEN Some([sub |-> token.sub, exp |-> token.exp])
    ELSE None

\* jwt.decode(token, key, algorithms=[HS256]): the payload, or None for a
\* JWTError (malformed token, signature mismatch, exp earlier than the clock)
JwtDecode(token, key, at) ==
    IF /\ token.wf
       /\ token.sig = Sign(key, token.sub, token.exp)
       /\ ~(token.exp < at)
    THEN Some([sub |-> token.sub, exp |-> token.exp])
    ELSE None

\* get_user: the row of that username, or None
GetUser(username, table) ==
    IF username \in DOMAIN table THEN Some(table[username]) ELSE None

\* credentials_exception, lines 45-49
CredentialsException ==
    [status_code |-> 401, detail |-> "Could not validate credentials",
     headers |-> <<"WWW-Authenticate", "Bearer">>]

Raised(exc) == [ok |-> FALSE, user |-> None, error |-> exc]

Returned(user) == [ok |-> TRUE, user |-> Some(user), error |-> None]

\* an unknown subject is answered 404
GetCurrentUserLeaky(token, table, at) ==
    LET payload == JwtDecode(token, SECRET_KEY, at)
    IN  IF payload = None THEN Raised(CredentialsException)
        ELSE IF payload[1].sub = None THEN Raised(CredentialsException)
        ELSE IF GetUser(payload[1].sub[1], table) = None
             THEN Raised([status_code |-> 404, detail |-> "User not found",
                          headers |-> <<>>])
        ELSE Returned(GetUser(payload[1].sub[1], table)[1])

\* a later token of the same subject ends the earlier one
GetCurrentUserSingle(token, table, at) ==
    LET payload == JwtDecode(token, SECRET_KEY, at)
    IN  IF payload = None THEN Raised(CredentialsException)
        ELSE IF payload[1].sub = None THEN Raised(CredentialsException)
        ELSE IF GetUser(payload[1].sub[1], table) = None
             THEN Raised(CredentialsException)
        ELSE IF \E t \in issued : t.sub = token.sub /\ t.exp > token.exp
             THEN Raised(CredentialsException)
        ELSE Returned(GetUser(payload[1].sub[1], table)[1])

\* get_current_user, lines 41-60
GetCurrentUser(token, table, at) ==
    LET payload == JwtDecode(token, SECRET_KEY, at)
    IN  IF payload = None THEN Raised(CredentialsException)
        ELSE IF payload[1].sub = None THEN Raised(CredentialsException)
        ELSE IF GetUser(payload[1].sub[1], table) = None
             THEN Raised(CredentialsException)
        ELSE Returned(GetUser(payload[1].sub[1], table)[1])

\* tokens that were not made by create_access_token: a string that is no
\* JWT, tokens signed with another key, and an issued token whose expiry
\* claim was rewritten under the old signature
Malformed == [wf |-> FALSE, sub |-> None, exp |-> 0, sig |-> <<>>]

Forged ==
    {JwtEncode(Some(u), e, OtherKey) :
        u \in Usernames, e \in {0, ACCESS_TOKEN_EXPIRE_MINUTES}}

Tampered == {[t EXCEPT !.exp = @ + ACCESS_TOKEN_EXPIRE_MINUTES] : t \in issued}

Presentable == issued \cup Forged \cup Tampered \cup {Malformed}

\* which check a presented token fails first, told from the token itself
TokenKind(token) ==
    IF ~token.wf THEN "malformed"
    ELSE IF token.sig # Sign(SECRET_KEY, token.sub, token.exp)
         THEN "bad_signature"
    ELSE IF token.exp < now THEN "expired"
    ELSE IF token.sub = None THEN "no_subject"
    ELSE IF token.sub[1] \notin DOMAIN users THEN "unknown_subject"
    ELSE "valid"

\* a taken username is registered again over the row that is there
RegisterOverwrite(username, password, salt) ==
    /\ users' = [u \in (DOMAIN users) \cup {username} |->
                    IF u = username
                    THEN [id |-> Cardinality(DOMAIN users) + 1,
                          username |-> username,
                          password |-> HashPassword(password, salt),
                          role |-> "user"]
                    ELSE users[u]]
    /\ call' = [op |-> "register", username |-> username,
                password |-> password, status |-> 201]
    /\ auth' = NoCall
    /\ UNCHANGED <<now, redis, rateVars, noteVars, issued>>

\* register, main.py lines 170-183: 400 for a taken username, or a new row
Register(username, password, salt) ==
    /\ IF GetUser(username, users) # None
       THEN /\ users' = users
            /\ call' = [op |-> "register", username |-> username,
                        password |-> password, status |-> 400]
       ELSE /\ users' = [u \in (DOMAIN users) \cup {username} |->
                           IF u = username
                           THEN [id |-> Cardinality(DOMAIN users) + 1,
                                 username |-> username,
                                 password |-> HashPassword(password, salt),
                                 role |-> "user"]
                           ELSE users[u]]
            /\ call' = [op |-> "register", username |-> username,
                        password |-> password, status |-> 201]
    /\ auth' = NoCall
    /\ UNCHANGED <<now, redis, rateVars, noteVars, issued>>

\* the answer of login: the status, and the token if one was made
LoginReply(username, password, status, token) ==
    [op |-> "login", username |-> username, password |-> password,
     status |-> status, token |-> token]

\* login, main.py lines 203-213: 401 for an unknown username or a password
\* that does not verify, or a token of ACCESS_TOKEN_EXPIRE_MINUTES; an
\* exception of verify_password is not caught and ends the request with 500
LoginStep(username, password) ==
    /\ LET user == GetUser(username, users)
           verified == VerifyPassword(password, user[1].password)
           token == CreateAccessToken(Some(username),
                                      Some(ACCESS_TOKEN_EXPIRE_MINUTES), now)
       IN  IF user = None
           THEN /\ issued' = issued
                /\ call' = LoginReply(username, password, 401, None)
           ELSE IF verified = "UnknownHashError"
           THEN /\ issued' = issued
                /\ call' = LoginReply(username, password, 500, None)
           ELSE IF verified = "False"
           THEN /\ issued' = issued
                /\ call' = LoginReply(username, password, 401, None)
           ELSE /\ issued' = issued \cup {token}
                /\ call' = LoginReply(username, password, 200, Some(token))
    /\ auth' = NoCall
    /\ UNCHANGED <<now, redis, rateVars, noteVars, users>>

Login(username, password) ==
    /\ Cardinality(issued) < MaxTokens
    /\ LoginStep(username, password)

\* create_access_token applied to a caller's data and expires_delta
IssueToken(data, expires_delta) ==
    /\ Cardinality(issued) < MaxTokens
    /\ issued' = issued \cup {CreateAccessToken(data, expires_delta, now)}
    /\ call' = [op |-> "create_access_token", data |-> data,
                expires_delta |-> expires_delta, at |-> now,
                token |-> CreateAccessToken(data, expires_delta, now)]
    /\ auth' = NoCall
    /\ UNCHANGED <<now, redis, rateVars, noteVars, users>>

\* a request presents a bearer token: get_current_user runs on it
Authenticate(token) ==
    /\ auth' = [kind |-> TokenKind(token), token |-> token,
                out |-> GetCurrentUser(token, users, now)]
    /\ call' = NoReply
    /\ UNCHANGED <<now, redis, rateVars, noteVars, users, issued>>

AuthTick ==
    /\ now < MaxAuthTime
    /\ now' = now + 1
    /\ auth' = NoCall
    /\ call' = NoReply
    /\ UNCHANGED <<redis, rateVars, noteVars, users, issued>>

InitAuth == InitNotes

NextAuth ==
    \/ \E u \in Usernames, p \in Passwords, salt \in Salts :
          Register(u, p, salt)
    \/ \E u \in Usernames, p \in Passwords : Login(u, p)
    \/ \E data \in {None} \cup {Some(u) : u \in Usernames},
          d \in {None} \cup {Some(m) : m \in 0..MaxDelta} :
          IssueToken(data, d)
    \/ \E token \in Presentable : Authenticate(token)
    \/ AuthTick

SpecAuth == InitAuth /\ [][NextAuth]_vars

\* ------------------------------------------------------------------- roles
Roles == {"admin", "user"}

\* the 403 of role_checker, main.py lines 116-119
Forbidden ==
    [status_code |-> 403, detail |-> "Operation not permitted",
     headers |-> None]

\* admin passes every role check
RequireRoleHierarchy(role, user) ==
    IF user.role # role /\ user.role # "admin"
    THEN Raised(Forbidden)
    ELSE Returned(user)

\* require_role(role) applied to an identity: role_checker, lines 114-120
RequireRole(role, user) ==
    IF user.role # role THEN Raised(Forbidden) ELSE Returned(user)

\* a request to an endpoint guarded by Depends(require_role(role)), as
\* get_users is with "admin": get_current_user runs on the bearer token and
\* role_checker on the identity it returns
RoleChecker(role, token) ==
    /\ LET out == GetCurrentUser(token, users, now)
       IN  /\ auth' = [kind |-> TokenKind(token), token |-> token,
                       out |-> out]
           /\ call' = IF out.ok
                      THEN [op |-> "role_checker", role |-> role,
                            user |-> out.user[1],
                            out |-> RequireRole(role, out.user[1])]
                      ELSE NoReply
    /\ UNCHANGED <<now, redis, rateVars, noteVars, users, issued>>

\* rows that were written to the user table directly: register gives every
\* identity the role "user", so an administrator is such a row, and so is a
\* row whose password was stored as text
AdminRow ==
    [id |-> 1, username |-> "amina",
     password |-> HashPassword("password1", "salt1"), role |-> "admin"]

PlainRow ==
    [id |-> 2, username |-> "user1",
     password |-> PlainDigest("password1"), role |-> "user"]

SeededTables ==
    { [u \in {"amina"} |-> AdminRow],
      [u \in {"amina", "user1"} |->
          IF u = "amina" THEN AdminRow ELSE PlainRow] }

\* the service is started on a user table that holds such rows
InitSeeded ==
    /\ now = 0
    /\ redis = <<>>
    /\ limit = MaxLimit
    /\ window = MaxWindow
    /\ rreqs = <<>>
    /\ notes = <<>>
    /\ nextId = 1
    /\ nreqs = <<>>
    /\ muts = [u \in Users |-> 0]
    /\ users \in SeededTables
    /\ issued = {}
    /\ auth = NoCall
    /\ call = NoReply

NextSeeded ==
    \/ NextAuth
    \/ \E role \in Roles, token \in Presentable : RoleChecker(role, token)

SpecSeeded == InitSeeded /\ [][NextSeeded]_vars

\* ---------------------------------------------------------------- sessions
\* Users register, log in again while an earlier token is still good, call
\* endpoints with their tokens (get_users among them), and create notes.
\* The user table is empty at the start or holds the administrator's row.
MaxSessions == MaxTokens + 1

SessionLogin(username, password) ==
    /\ Cardinality(issued) < MaxSessions
    /\ LoginStep(username, password)

InitSession ==
    /\ now = 0
    /\ redis = <<>>
    /\ limit = MaxLimit
    /\ window = MaxWindow
    /\ rreqs = <<>>
    /\ notes = <<>>
    /\ nextId = 1
    /\ nreqs = <<>>
    /\ muts = [u \in Users |-> 0]
    /\ users \in {<<>>, [u \in {"amina"} |-> AdminRow]}
    /\ issued = {}
    /\ auth = NoCall
    /\ call = NoReply

NextSession ==
    \/ \E u \in Usernames, salt \in Salts : Register(u, "password1", salt)
    \/ \E u \in Usernames : SessionLogin(u, "password1")
    \/ \E token \in issued \cup {Malformed} : Authenticate(token)
    \/ \E token \in issued : RoleChecker("admin", token)
    \/ \E c \in Contents : SeqCreateNote(Owner, <<"a">>, c)
    \/ AuthTick

SpecSession == InitSession /\ [][NextSession]_vars

\* --------------------------------------------- tokens and identities: claims
Called == auth.kind # "none"

\* C9: a token that create_access_token issued for a subject with an
\* identity validates at every time before its embedded expiry and fails at
\* every time after it; a token signed with another secret always fails.
C9_ValidUntilExpiry ==
    Called =>
        /\ (/\ auth.token \in issued
            /\ auth.token.sub # None
            /\ GetUser(auth.token.sub[1], users) # None) =>
               /\ now < auth.token.exp =>
                     /\ auth.out.ok
                     /\ auth.out.user[1].username = auth.token.sub[1]
               /\ now > auth.token.exp => ~auth.out.ok
        /\ (auth.token.wf /\ auth.token.sig[1] # SECRET_KEY) => ~auth.out.ok

\* an issued token of a registered subject is refused after its expiry
C9_Witness ==
    /\ Called
    /\ auth.token \in issued
    /\ auth.token.sub # None
    /\ GetUser(auth.token.sub[1], users) # None
    /\ now > auth.token.exp
    /\ ~auth.out.ok

\* C10: whichever check fails (signature, structure, subject claim, expiry,
\* identity lookup), get_current_user answers with the same error: status,
\* detail and headers do not tell the checks apart.
C10_OneError ==
    Called =>
        /\ auth.kind # "valid" => ~auth.out.ok
        /\ ~auth.out.ok => auth.out.error = CredentialsException

\* a valid token whose subject has no identity is refused
C10_Witness ==
    /\ Called
    /\ auth.kind = "unknown_subject"
    /\ ~auth.out.ok

\* C11: role_checker built by require_role(r) returns the identity it was
\* given exactly when the identity's role equals r, and raises 403 otherwise:
\* a "user" is refused by require_role("admin") and an "admin" by
\* require_role("user").
C11_StrictRoleEquality ==
    call.op = "role_checker" =>
        /\ call.out.ok <=> call.user.role = call.role
        /\ call.out.ok => call.out.user = Some(call.user)
        /\ ~call.out.ok => call.out.error.status_code = 403

\* an administrator is refused by require_role("user")
C11_Witness ==
    /\ call.op = "role_checker"
    /\ call.user.role = "admin"
    /\ call.role = "user"
    /\ ~call.out.ok

\* C12: the token create_access_token returns carries the expiry
\* now + expires_delta for every expires_delta the caller supplies, zero
\* included, and now + 30 minutes only when the caller supplies none.
C12_ExpiryIsNowPlusTtl ==
    call.op = "create_access_token" =>
        call.token.exp =
            call.at + (IF call.expires_delta = None
                       THEN ACCESS_TOKEN_EXPIRE_MINUTES
                       ELSE call.expires_delta[1])

C17_MalformedDigestIs401 ==
    (/\ call.op = "login"
     /\ call.username \in DOMAIN users
     /\ ~Identified(users[call.username].password)) =>
        call.status = 401

\* the step in which dispatch answers request i with 429
Rejects(i) == rreqs[i].pc = "set" /\ rreqs'[i].resp = "429"

\* C20: a request that the rate limiter rejects reaches no handler: the
\* handlers have run for forwarded requests only, and the step that answers
\* 429 leaves the note table, the handlers' requests, the identities and
\* every store entry alone except the rejected client's counter of the
\* current bucket.
C20_RejectedHasNoEffect ==
    [][ /\ Len(nreqs') <= Cardinality(ForwardedReqs')
        /\ \A i \in 1..Len(rreqs) :
              Rejects(i) =>
                  /\ UNCHANGED <<noteVars, authVars>>
                  /\ \A key \in (DOMAIN redis) \cup (DOMAIN redis') :
                        key # WindowKey(rreqs[i].client, rreqs[i].t, window)
                            => /\ key \in DOMAIN redis
                               /\ key \in DOMAIN redis'
                               /\ redis'[key] = redis[key] ]_vars

\* a request was rejected while the store held a listing entry and the note
\* table a note, both left by the handlers of forwarded requests
C20_Witness ==
    /\ \E i \in 1..Len(rreqs) : rreqs[i].resp = "429"
    /\ Len(nreqs) = Cardinality(ForwardedReqs)
    /\ notes # <<>>
    /\ ListingKeys(Owner) # {}

\* ------------------------------------------ addressed notes: claims
\* request i of this step looked the addressed row up in this step
LooksUp(i) ==
    /\ nreqs'[i].op \in {"get_note", "update_note", "delete_note"}
    /\ nreqs'[i].dbRead
    /\ (i <= Len(nreqs) => ~nreqs[i].dbRead)

\* C23: get_note, update_note and delete_note answer 404 for a missing note
\* and 403 for a note of another user, and leave the note table as it was in
\* both cases; a row is changed or removed only by a request of its owner.
C23_OwnerOnly ==
    [][
        /\ \A i \in Acting : LooksUp(i) =>
              LET id == nreqs'[i].note_id
              IN  /\ id \notin DOMAIN notes
                        => nreqs'[i].status = 404 /\ notes' = notes
                  /\ (id \in DOMAIN notes
                          /\ notes[id].owner_id # nreqs'[i].user)
                        => nreqs'[i].status = 403 /\ notes' = notes
        /\ \A id \in DOMAIN notes :
              (id \notin DOMAIN notes' \/ notes'[id] # notes[id])
                  => \E i \in Acting : nreqs'[i].user = notes[id].owner_id
      ]_vars

\* a user was refused the note of the other user, which is still there, and
\* was told that a note that does not exist is missing
C23_Witness ==
    \E i \in 1..Len(nreqs), j \in 1..Len(nreqs) :
        /\ nreqs[i].op \in {"update_note", "delete_note"}
        /\ nreqs[i].status = 403
        /\ nreqs[i].note_id \in DOMAIN notes
        /\ notes[nreqs[i].note_id].owner_id # nreqs[i].user
        /\ nreqs[j].op = "get_note"
        /\ nreqs[j].status = 404
        /\ nreqs[j].user = nreqs[i].user

\* C26: two listing calls that differ in owner, offset, limit or search term
\* (no search term and the search term "None" included) have different cache
\* keys, and a listing is served only from an entry that a call with the
\* same owner, offset, limit and search term stored.
C26_KeyInjective ==
    /\ \A j \in 1..Len(nreqs), k \in 1..Len(nreqs) :
          (/\ IsListing(j) /\ IsListing(k)
           /\ CacheKey(nreqs[j].user, nreqs[j].skip, nreqs[j].limit,
                       nreqs[j].search)
                = CacheKey(nreqs[k].user, nreqs[k].skip, nreqs[k].limit,
                           nreqs[k].search))
              => SameQuery(j, k)
    /\ \A k \in 1..Len(nreqs) :
          (IsListing(k) /\ nreqs[k].hit) => SameQuery(nreqs[k].src, k)

\* C29: a mutation handler (create_note, update_note, delete_note) returns
\* success only in a step that issues the owner's invalidation, after the
\* step that committed the mutation.
C29_InvalidationAfterCommit ==
    [][\A i \in Acting :
          (/\ nreqs'[i].op \in {"create_note", "update_note", "delete_note"}
           /\ nreqs'[i].pc = "done"
           /\ nreqs'[i].status \in {200, 201, 204})
              => /\ i <= Len(nreqs)
                 /\ nreqs[i].pc = "inval"
                 /\ \A u \in Users : nreqs'[i].user = u =>
                       redis' = RedisDelete(OwnerPatternKey(u))
      ]_vars

\* request i of this step committed an update in this step
Commits(i) ==
    /\ i <= Len(nreqs)
    /\ nreqs[i].op = "update_note"
    /\ nreqs[i].pc = "db"
    /\ nreqs'[i].pc = "inval"

\* C30: a successful update_note sets the title and the content that the
\* request supplies and leaves the rest as it was: the owner and the fields
\* not supplied of the addressed note, the set of note ids, and every other
\* note.
C30_UpdateFrame ==
    [][\A i \in Acting : Commits(i) =>
          LET r == nreqs[i]
              id == nreqs[i].note_id
          IN  /\ DOMAIN notes' = DOMAIN notes
              /\ \A k \in DOMAIN notes : k # id => notes'[k] = notes[k]
              /\ notes'[id].owner_id = notes[id].owner_id
              /\ notes'[id].title =
                    IF r.title # None THEN r.title[1] ELSE notes[id].title
              /\ notes'[id].content =
                    IF r.content # None THEN r.content[1]
                    ELSE notes[id].content
              /\ nextId' = nextId
      ]_vars

\* a title-only update answered 200: the title is the new one, the content
\* the one the note was created with, and another note is in the table
C30_Witness ==
    \E i \in 1..Len(nreqs) :
        /\ nreqs[i].op = "update_note"
        /\ nreqs[i].status = 200
        /\ nreqs[i].title # None /\ nreqs[i].content = None
        /\ nreqs[i].note_id \in DOMAIN notes
        /\ notes[nreqs[i].note_id].title = nreqs[i].title[1]
        /\ notes[nreqs[i].note_id].content \in Contents
        /\ \E k \in DOMAIN notes : k # nreqs[i].note_id

\* ---------------------------------------------------- sessions: claims
\* C24: a row that register adds has the role "user"; no step (register,
\* login, a call with a token, a note operation) changes the role, the
\* username or the password digest of a row that is there or removes the
\* row; register of a taken username answers 400 and leaves the table as it
\* was.
C24_IdentitiesImmutable ==
    [][
        /\ \A u \in DOMAIN users :
              /\ u \in DOMAIN users'
              /\ users'[u].role = users[u].role
              /\ users'[u].username = users[u].username
              /\ users'[u].password = users[u].password
        /\ \A u \in (DOMAIN users') \ (DOMAIN users) :
              /\ users'[u].role = "user"
              /\ call'.op = "register"
              /\ call'.username = u
              /\ call'.status = 201
        /\ (/\ call' # call
            /\ call'.op = "register"
            /\ call'.username \in DOMAIN users)
              => call'.status = 400 /\ users' = users
      ]_vars

\* the administrator's username was registered again and refused: the row
\* still has the role admin, next to a row that register made, after a
\* login and a created note
C24_Witness ==
    /\ call.op = "register"
    /\ call.status = 400
    /\ users[call.username].role = "admin"
    /\ \E u \in DOMAIN users : users[u].role = "user"
    /\ issued # {}
    /\ Len(nreqs) >= 1

\* C25: a step that validates a token changes nothing but the answer to that
\* call, the answer is the function of the token, the secret, the clock and
\* the user table, and a token that validates keeps validating through every
\* step that leaves the clock alone: a later login of the same subject and
\* note operations included.
C25_ValidationIsPure ==
    [][
        /\ (auth' # auth /\ auth'.kind # "none") =>
              /\ UNCHANGED <<now, redis, rateVars, noteVars, users, issued>>
              /\ auth'.out = GetCurrentUser(auth'.token, users, now)
        /\ \A t \in issued :
              (GetCurrentUser(t, users, now).ok /\ now' = now)
                  => GetCurrentUser(t, users, now)'.ok
      ]_vars

\* the earlier of two tokens of one subject validated after the later one
\* was issued, and a note was created
C25_Witness ==
    /\ Called
    /\ auth.out.ok
    /\ auth.token \in issued
    /\ \E t \in issued : t.sub = auth.token.sub /\ t.exp > auth.token.exp
    /\ Len(nreqs) >= 1

====
